---- MODULE Spec2Model ----
(***************************************************************************)
(* githubcron: the ServerlessCron job registry and request-dispatch        *)
(* engine (ServerlessCron.ts, utils/security.ts, utils/context.ts).        *)
(*                                                                         *)
(* Strings the code splits or scans are sequences of one-character         *)
(* strings; strings it only compares or concatenates are TLA+ strings.     *)
(* A JavaScript object with optional keys is a function whose DOMAIN is    *)
(* the set of keys present.                                                *)
(***************************************************************************)
EXTENDS Integers, Sequences, FiniteSets, TLC

VARIABLES
    inst,       \* "new" before the constructor ran, then "constructed" or "threw"
    ctorArg,    \* the ServerlessCronOptions object handed to the constructor
    options,    \* this.options
    jobs,       \* this.jobs: Map<string, JobDefinition>, in insertion order
    lastJob,    \* outcome of the latest job() call
    calls,      \* the handleRequest invocations, by call slot
    registered, \* what the job() calls that stored a definition were given, in order
    checked,    \* a direct validateSecret call: its arguments and its outcome
    listed,     \* the value the latest getJobs() call returned, as its caller holds it
    workflow,   \* the latest generateGitHubWorkflow call: its argument and its outcome
    http,       \* the adapter invocations, by call slot: the HTTP request and the reply
    now         \* Date.now(), in milliseconds

vars == <<inst, ctorArg, options, jobs, lastJob, calls,
          registered, checked, listed, workflow, http, now>>

\* what the callers of validateSecret, getJobs and generateGitHubWorkflow hold
callerVars == <<checked, listed, workflow>>

-----------------------------------------------------------------------------
(* Bounds and input domains *)

MaxJobs == 2

NamePool == <<"a", "b", "c", "d">>

\* the job names register() and requests draw from
JobNames == {NamePool[i] : i \in 1..MaxJobs}

\* one slot per handleRequest invocation that may be in flight
CallIds == {1, 2}

TestSecret == "test-secret-12345"
WrongSecret == "wrong-secret"

\* values a request may carry in a secret header
HeaderValues == {"", TestSecret, WrongSecret}

\* the header keys validateSecret reads
LowerKey == "x-cron-secret"
TitleKey == "X-Cron-Secret"

\* JavaScript's undefined, as the value of a key that is not present
Undefined == "undefined"

Get(obj, key) == IF key \in DOMAIN obj THEN obj[key] ELSE Undefined

\* !v for the string-or-undefined values of the model
Falsy(v) == v = Undefined \/ v = ""

\* a || b
OrElse(a, b) == IF Falsy(a) THEN b ELSE a

EmptyObject == [k \in {} |-> ""]

AllHeaders ==
    UNION {[K -> HeaderValues] : K \in SUBSET {LowerKey, TitleKey}}

Requests == [jobName : JobNames, headers : AllHeaders]

-----------------------------------------------------------------------------
(* types.ts: ServerlessCronError, and the values a handler or callback may throw *)

NoError == [cls |-> "none", message |-> "", code |-> "", statusCode |-> 0]

\* new ServerlessCronError(message, code, statusCode)
ServerlessCronError(message, code, statusCode) ==
    [cls |-> "ServerlessCronError", message |-> message, code |-> code,
     statusCode |-> statusCode]

\* new Error(message)
PlainError(message) ==
    [cls |-> "Error", message |-> message, code |-> "", statusCode |-> 0]

\* a thrown value that is no Error (throw "boom"); message holds String(value)
NonError(value) ==
    [cls |-> "NonError", message |-> value, code |-> "", statusCode |-> 0]

\* error instanceof Error
InstanceOfError(e) == e.cls \in {"Error", "ServerlessCronError"}

\* error instanceof ServerlessCronError
InstanceOfSCE(e) == e.cls = "ServerlessCronError"

\* what a job handler may throw
HandlerThrows ==
    { PlainError("Job failed"),
      ServerlessCronError("handler says gone", "JOB_NOT_FOUND", 404),
      ServerlessCronError("handler says unauthorized", "MISSING_SECRET", 401),
      NonError("boom") }

\* what a lifecycle callback may throw
CallbackThrows ==
    { PlainError("callback failed"),
      ServerlessCronError("callback refused", "INVALID_SECRET", 403) }

\* what a job handler may return
HandlerResults == {"r1", "r2"}

-----------------------------------------------------------------------------
(* Schedule strings: sequences of one-character strings *)

IsSpace(ch) == ch \in {" ", "\t", "\n"}

RECURSIVE TrimStart(_)
TrimStart(s) ==
    IF s = <<>> THEN <<>>
    ELSE IF IsSpace(Head(s)) THEN TrimStart(Tail(s)) ELSE s

RECURSIVE TrimEnd(_)
TrimEnd(s) ==
    IF s = <<>> THEN <<>>
    ELSE IF IsSpace(s[Len(s)]) THEN TrimEnd(SubSeq(s, 1, Len(s) - 1)) ELSE s

\* String.prototype.trim
Trim(s) == TrimEnd(TrimStart(s))

\* String.prototype.split(/\s+/): the pieces between maximal runs of white
\* space; cur is the piece being read, inRun says the last character was space
RECURSIVE SplitFrom(_, _, _)
SplitFrom(s, cur, inRun) ==
    IF s = <<>> THEN <<cur>>
    ELSE IF IsSpace(Head(s))
         THEN IF inRun THEN SplitFrom(Tail(s), cur, TRUE)
              ELSE <<cur>> \o SplitFrom(Tail(s), <<>>, TRUE)
         ELSE SplitFrom(Tail(s), Append(cur, Head(s)), FALSE)

SplitWhitespace(s) == SplitFrom(s, <<>>, FALSE)

\* a validation that splits the expression as it is given
isValidCronExpression_NoTrim(expression) ==
    LET parts == SplitWhitespace(expression)
    IN  Len(parts) = 5 \/ Len(parts) = 6

\* ServerlessCron.isValidCronExpression
isValidCronExpression(expression) ==
    LET parts == SplitWhitespace(Trim(expression))
    IN  Len(parts) = 5 \/ Len(parts) = 6

Cron9 == <<"0", " ", "9", " ", "*", " ", "*", " ", "*">>
Cron18 == <<"0", " ", "1", "8", " ", "*", " ", "*", " ", "*">>
CronInvalid == <<"i", "n", "v", "a", "l", "i", "d", " ", "c", "r", "o", "n">>

\* definition.schedule: a string, or an array of strings
ScheduleString(str) == [array |-> FALSE, str |-> str]
ScheduleArray(list) == [array |-> TRUE, list |-> list]

\* Array.isArray(definition.schedule) ? definition.schedule : [definition.schedule]
SchedulesOf(definition) ==
    IF definition.schedule.array
    THEN definition.schedule.list
    ELSE <<definition.schedule.str>>

\* the job definitions the dispatch specification registers
DispatchDefs ==
    { [schedule |-> ScheduleString(Cron9), handler |-> "h1", retry |-> TRUE],
      [schedule |-> ScheduleString(CronInvalid), handler |-> "h2"] }

-----------------------------------------------------------------------------
(* this.jobs: a Map, kept as the sequence of its entries in insertion order *)

\* a has() that finds nothing
MapHas_Never(m, key) == FALSE

\* Map.prototype.has
MapHas(m, key) == \E i \in 1..Len(m) : m[i].name = key

MapGet(m, key) == m[CHOOSE i \in 1..Len(m) : m[i].name = key].def

\* Map.prototype.set: replaces the value of a present key in place, appends a new key
MapSet(m, key, value) ==
    IF MapHas(m, key)
    THEN [i \in 1..Len(m) |->
            IF m[i].name = key THEN [name |-> key, def |-> value] ELSE m[i]]
    ELSE Append(m, [name |-> key, def |-> value])

-----------------------------------------------------------------------------
(* The constructor *)

FnKeys == {"onJobStart", "onJobComplete", "onJobError", "logger"}

\* an options object: the secret key (absent, empty or set) and the function-valued keys
OptionsObject(secret, fnKeys) ==
    (IF secret = Undefined THEN EmptyObject ELSE [k \in {"secret"} |-> secret])
        @@ [k \in fnKeys |-> "fn"]

DispatchCtorArgs ==
    {OptionsObject(s, K) : s \in {Undefined, "", TestSecret}, K \in SUBSET FnKeys}

\* this.options as the constructor without the secret default leaves it
NewOptions_NoSecretDefault(o) ==
    [ name |-> Get(o, "name"),
      secret |-> Get(o, "secret"),
      baseUrl |-> OrElse(Get(o, "baseUrl"), ""),
      cronPath |-> OrElse(Get(o, "cronPath"), "/api/cron"),
      baseUrlEnvVar |-> Get(o, "baseUrlEnvVar"),
      envVarSource |-> Get(o, "envVarSource"),
      onJobStart |-> Get(o, "onJobStart"),
      onJobComplete |-> Get(o, "onJobComplete"),
      onJobError |-> Get(o, "onJobError"),
      logger |-> Get(o, "logger") ]

\* this.options = {...}; debug only selects console output and is left out
NewOptions(o) ==
    [ name |-> Get(o, "name"),
      secret |-> OrElse(Get(o, "secret"), ""),
      baseUrl |-> OrElse(Get(o, "baseUrl"), ""),
      cronPath |-> OrElse(Get(o, "cronPath"), "/api/cron"),
      baseUrlEnvVar |-> Get(o, "baseUrlEnvVar"),
      envVarSource |-> Get(o, "envVarSource"),
      onJobStart |-> Get(o, "onJobStart"),
      onJobComplete |-> Get(o, "onJobComplete"),
      onJobError |-> Get(o, "onJobError"),
      logger |-> Get(o, "logger") ]

NoOptions == NewOptions(EmptyObject)

\* what the constructor throws: its body holds no throw, and the adapters'
\* constructors only store their arguments
ConstructorError(o) == NoError

\* new ServerlessCron(o)
Construct(o) ==
    /\ inst = "new"
    /\ ctorArg' = o
    /\ IF ConstructorError(o) # NoError
       THEN /\ inst' = "threw"
            /\ UNCHANGED options
       ELSE /\ inst' = "constructed"
            /\ options' = NewOptions(o)
    /\ UNCHANGED <<jobs, lastJob, calls, registered, callerVars, http, now>>

-----------------------------------------------------------------------------
(* log(): hands the message to options.logger when one is configured, else  *)
(* to the console. A configured logger is caller code and may throw.        *)

LoggerError == PlainError("logger failed")

LogOutcomes ==
    IF options.logger # Undefined THEN {NoError, LoggerError} ELSE {NoError}

-----------------------------------------------------------------------------
(* job(name, definition) *)

NoJobCall == [name |-> "", def |-> [handler |-> "none"], error |-> NoError, stored |-> FALSE]

\* the first schedule of the list that fails validation, 0 when none does
FirstInvalid(schedules) ==
    IF \E i \in 1..Len(schedules) : ~isValidCronExpression(schedules[i])
    THEN CHOOSE i \in 1..Len(schedules) :
            /\ ~isValidCronExpression(schedules[i])
            /\ \A j \in 1..(i - 1) : isValidCronExpression(schedules[j])
    ELSE 0

\* jobs are registered while the module loads, before the first request arrives;
\* lastJob.error is what the call threw (the offending schedule is not spelled
\* out in the message), lg is how the closing log call ended
job(name, definition, lg) ==
    /\ inst = "constructed"
    /\ \A c \in CallIds : calls[c].pc = "idle"
    /\ IF MapHas(jobs, name)
       THEN /\ lastJob' = [name |-> name, def |-> definition, stored |-> FALSE,
                           error |-> ServerlessCronError(
                               "Job \"" \o name \o "\" already exists",
                               "DUPLICATE_JOB", 500)]
            /\ UNCHANGED <<jobs, registered>>
       ELSE IF FirstInvalid(SchedulesOf(definition)) # 0
       THEN /\ lastJob' = [name |-> name, def |-> definition, stored |-> FALSE,
                           error |-> ServerlessCronError(
                               "Invalid cron expression",
                               "INVALID_CRON_EXPRESSION", 500)]
            /\ UNCHANGED <<jobs, registered>>
       ELSE /\ jobs' = MapSet(jobs, name, definition)
            /\ registered' = Append(registered, [name |-> name, def |-> definition])
            /\ lastJob' = [name |-> name, def |-> definition, stored |-> TRUE,
                           error |-> lg]
    /\ UNCHANGED <<inst, ctorArg, options, calls, callerVars, http, now>>

-----------------------------------------------------------------------------
(* utils/security.ts *)

Throw(e) == [threw |-> TRUE, error |-> e]
Return == [threw |-> FALSE, error |-> NoError]

validateSecret(headers, expectedSecret) ==
    LET headerSecret == OrElse(Get(headers, LowerKey), Get(headers, TitleKey))
    IN  IF Falsy(headerSecret)
        THEN Throw(ServerlessCronError("Missing X-Cron-Secret header",
                                       "MISSING_SECRET", 401))
        ELSE IF headerSecret # expectedSecret
        THEN Throw(ServerlessCronError("Invalid secret token",
                                       "INVALID_SECRET", 403))
        ELSE Return

-----------------------------------------------------------------------------
(* utils/context.ts. A context is an object: its identity and its           *)
(* properties. A function that is handed an object yields, beside the value *)
(* it returns, the object as the call leaves it.                            *)

NoContext == [obj |-> <<0, "none">>, props |-> EmptyObject]

\* createJobContext(jobName, headers, metadata); obj is the object the literal allocates
createJobContext(obj, jobName, headers, metadata) ==
    [ obj |-> obj,
      props |-> [ jobName |-> jobName, startedAt |-> now,
                  headers |-> headers, metadata |-> metadata ] ]

\* a completion that writes result and duration into the context it was given
completeJobContext_InPlace(obj, context, result, startTime) ==
    LET written == [ obj |-> context.obj,
                     props |-> ("result" :> result @@ "duration" :> (now - startTime))
                                   @@ context.props ]
    IN  [context |-> written, returned |-> written]

\* completeJobContext(context, result, startTime): { ...context, result, duration }
completeJobContext(obj, context, result, startTime) ==
    [ context |-> context,
      returned |-> [ obj |-> obj,
                     props |-> ("result" :> result @@ "duration" :> (now - startTime))
                                   @@ context.props ] ]

\* an error context whose duration is the start time minus the clock
errorJobContext_Backwards(obj, context, error, startTime) ==
    [ context |-> context,
      returned |-> [ obj |-> obj,
                     props |-> ("error" :> error @@ "duration" :> (startTime - now))
                                   @@ context.props ] ]

\* errorJobContext(context, error, startTime): { ...context, error, duration }
errorJobContext(obj, context, error, startTime) ==
    [ context |-> context,
      returned |-> [ obj |-> obj,
                     props |-> ("error" :> error @@ "duration" :> (now - startTime))
                                   @@ context.props ] ]

\* error instanceof Error ? error : new Error(String(error))
AsError(error) == IF InstanceOfError(error) THEN error ELSE PlainError(error.message)

-----------------------------------------------------------------------------
(* handleRequest(request): one invocation per call slot. An action runs the *)
(* code from one await to the next; trace lists, in order, the validator,   *)
(* the registry lookup, the handler and the callbacks the call has invoked. *)

NoRequest == [jobName |-> "", headers |-> EmptyObject]
NoResponse == [status |-> 0, body |-> [success |-> FALSE]]
NoJob == [handler |-> "none"]

IdleCall ==
    [ pc |-> "idle",            \* idle, onJobStart, handler, onJobComplete, onJobError, done
      slot |-> 0,               \* the invocation, which names the objects it allocates
      req |-> NoRequest,
      startTime |-> 0,          \* const startTime = Date.now()
      context |-> NoContext,    \* const context = createJobContext(...)
      completeContext |-> NoContext,
      errorContext |-> NoContext,
      invokedAt |-> 0,          \* the clock when job.handler was invoked
      settledAt |-> 0,          \* the clock when job.handler returned or threw
      job |-> NoJob,            \* const job = this.jobs.get(jobName)
      trace |-> <<>>,
      threw |-> <<>>,           \* the failures of caller code so far: who threw what
                                \* (the handler, a callback, or one of the three log calls)
      result |-> Undefined,     \* const result = await job.handler(context)
      caught |-> NoError,       \* the error bound by the inner catch
      settled |-> "none",       \* the returned promise: pending, resolved, rejected
      response |-> NoResponse,
      rejection |-> NoError ]

Invoked(call, what) == [call EXCEPT !.trace = Append(@, what)]

Threw(call, by, error) ==
    [call EXCEPT !.threw = Append(@, [by |-> by, error |-> error])]

\* the promise resolves with a response
Resolve(call, response) ==
    [call EXCEPT !.pc = "done", !.settled = "resolved", !.response = response]

\* the promise rejects: an error left handleRequest uncaught
Reject(call, error) ==
    [call EXCEPT !.pc = "done", !.settled = "rejected", !.rejection = error]

ErrorResponse(status, message) ==
    [status |-> status, body |-> [success |-> FALSE, error |-> message]]

\* an outer catch that handles only the engine's own errors
OuterCatch_OnlyStructured(call, error) ==
    IF InstanceOfSCE(error)
    THEN Resolve(call, ErrorResponse(error.statusCode, error.message))
    ELSE Reject(call, error)

\* catch (error) of the outer try
OuterCatch(call, error) ==
    IF InstanceOfSCE(error)
    THEN Resolve(call, ErrorResponse(error.statusCode, error.message))
    ELSE Resolve(call, ErrorResponse(500,
            IF InstanceOfError(error) THEN error.message
            ELSE "Unknown error occurred"))

\* the inner catch after its onJobError step: log the failure, rethrow the error
RethrowCaught(call, lg) ==
    IF lg # NoError THEN OuterCatch(Threw(call, "log failed", lg), lg)
    ELSE OuterCatch(call, call.caught)

\* an inner catch that runs the handler again when the job asks for retries
InnerCatch_Retries(call, error, lg) ==
    IF ~("retry" \in DOMAIN call.job /\ call.job.retry = FALSE) /\ Len(call.trace) < 6
    THEN Invoked([call EXCEPT !.pc = "handler"], "handler")
    ELSE IF options.onJobError # Undefined
    THEN Invoked([call EXCEPT !.pc = "onJobError", !.caught = error], "onJobError")
    ELSE RethrowCaught([call EXCEPT !.caught = error], lg)

\* catch (error) of the inner try, up to its await of onJobError
InnerCatch(call, error, lg) ==
    LET built == errorJobContext(<<call.slot, "errorContext">>, call.context,
                                 AsError(error), call.startTime)
        c == [call EXCEPT !.caught = error, !.context = built.context,
                          !.errorContext = built.returned]
    IN  IF options.onJobError # Undefined
        THEN Invoked([c EXCEPT !.pc = "onJobError"], "onJobError")
        ELSE RethrowCaught(c, lg)

\* a success response that leaves the handler's result out
SuccessResponse_NoResult(call) ==
    [ status |-> 200,
      body |-> [ success |-> TRUE,
                 message |-> "Job \"" \o call.req.jobName \o "\" executed successfully" ] ]

\* return { status: 200, body: { success: true, message, result } }
SuccessResponse(call) ==
    [ status |-> 200,
      body |-> [ success |-> TRUE,
                 message |-> "Job \"" \o call.req.jobName \o "\" executed successfully",
                 result |-> call.result ] ]

\* the inner try after its onJobComplete step: log the success (a failing log
\* lands in the inner catch), return the response
Completed(call, lg, lg2) ==
    IF lg # NoError THEN InnerCatch(Threw(call, "log completed", lg), lg, lg2)
    ELSE Resolve(call, SuccessResponse(call))

\* the inner try after the handler returned result
HandlerReturned(call, result, lg, lg2) ==
    LET built == completeJobContext(<<call.slot, "completeContext">>, call.context,
                                    result, call.startTime)
        c == [call EXCEPT !.result = result, !.context = built.context,
                          !.completeContext = built.returned]
    IN  IF options.onJobComplete # Undefined
        THEN Invoked([c EXCEPT !.pc = "onJobComplete"], "onJobComplete")
        ELSE Completed(c, lg, lg2)

\* log "Executing job", then invoke the handler
RunHandler(call, lg) ==
    IF lg # NoError THEN OuterCatch(Threw(call, "log executing", lg), lg)
    ELSE Invoked([call EXCEPT !.pc = "handler", !.invokedAt = now], "handler")

\* a job start that invokes the handler before the onJobStart callback
StartJob_HandlerFirst(call, lg) ==
    IF options.onJobStart # Undefined
    THEN Invoked(Invoked([call EXCEPT !.pc = "handler"], "handler"), "onJobStart")
    ELSE RunHandler(call, lg)

\* if (this.options.onJobStart) await this.options.onJobStart(context)
StartJob(call, lg) ==
    IF options.onJobStart # Undefined
    THEN Invoked([call EXCEPT !.pc = "onJobStart"], "onJobStart")
    ELSE RunHandler(call, lg)

\* an onJobStart call placed outside the try: its failure leaves the call uncaught
OnJobStartThrew_Escapes(call, error) == Reject(call, error)

\* a failing await of onJobStart sits inside the outer try
OnJobStartThrew(call, error) == OuterCatch(call, error)

\* a secret check that lets an unconfigured engine through
SecretConfigured_Always(opts) == TRUE

\* !this.options.secret, negated
SecretConfigured(opts) == ~Falsy(opts.secret)

\* a validator that reports a missing header as an invalid one
CheckSecret_NoMissingCase(headers, expectedSecret) ==
    IF Falsy(OrElse(Get(headers, LowerKey), Get(headers, TitleKey)))
    THEN Throw(ServerlessCronError("Invalid secret token", "INVALID_SECRET", 403))
    ELSE validateSecret(headers, expectedSecret)

\* a validator that accepts every request
CheckSecret_Lenient(headers, expectedSecret) == Return

\* validateSecret(request.headers, this.options.secret)
CheckSecret(headers, expectedSecret) == validateSecret(headers, expectedSecret)

\* a handleRequest that looks the job up before it validates the secret
Enter_LookupFirst(call, req, lg) ==
    LET c0 == [call EXCEPT !.req = req, !.settled = "pending"]
    IN  IF ~SecretConfigured(options)
        THEN Resolve(c0, ErrorResponse(500,
                "GITHUBCRON_SECRET is not configured. Set it in your ServerlessCron options."))
        ELSE
        LET c1 == Invoked(c0, "jobs.has")
            v == CheckSecret(req.headers, options.secret)
        IN  IF ~MapHas(jobs, req.jobName)
            THEN OuterCatch(c1, ServerlessCronError(
                    "Job \"" \o req.jobName \o "\" not found", "JOB_NOT_FOUND", 404))
            ELSE
            LET c2 == Invoked(c1, "validateSecret")
            IN  IF v.threw THEN OuterCatch(c2, v.error)
                ELSE StartJob(
                        [c2 EXCEPT !.job = MapGet(jobs, req.jobName),
                                   !.startTime = now,
                                   !.context = createJobContext(
                                       <<call.slot, "context">>, req.jobName,
                                       req.headers, Undefined)], lg)

\* handleRequest from its entry to its first await or return
Enter(call, req, lg) ==
    LET c0 == [call EXCEPT !.req = req, !.settled = "pending"]
    IN  IF ~SecretConfigured(options)
        THEN Resolve(c0, ErrorResponse(500,
                "GITHUBCRON_SECRET is not configured. Set it in your ServerlessCron options."))
        ELSE
        LET c1 == Invoked(c0, "validateSecret")
            v == CheckSecret(req.headers, options.secret)
        IN  IF v.threw THEN OuterCatch(c1, v.error)
            ELSE
            LET c2 == Invoked(c1, "jobs.has")
            IN  IF ~MapHas(jobs, req.jobName)
                THEN OuterCatch(c2, ServerlessCronError(
                        "Job \"" \o req.jobName \o "\" not found", "JOB_NOT_FOUND", 404))
                ELSE StartJob(
                        [c2 EXCEPT !.job = MapGet(jobs, req.jobName),
                                   !.startTime = now,
                                   !.context = createJobContext(
                                       <<call.slot, "context">>, req.jobName,
                                       req.headers, Undefined)], lg)

-----------------------------------------------------------------------------
(* The actions of one handleRequest invocation *)

\* how an awaited callback settles
CallbackOutcomes == {NoError} \cup CallbackThrows

\* how the awaited handler settles
HandlerOutcomes ==
    {[threw |-> FALSE, error |-> NoError, value |-> r] : r \in HandlerResults}
        \cup {[threw |-> TRUE, error |-> e, value |-> Undefined] : e \in HandlerThrows}

\* a handleRequest that waits until no other invocation is in flight
handleRequest_OneAtATime(c, req, lg) ==
    /\ inst = "constructed"
    /\ calls[c].pc = "idle"
    /\ \A d \in CallIds \ {c} : calls[d].pc \in {"idle", "done"}
    /\ calls' = [calls EXCEPT ![c] = Enter(calls[c], req, lg)]
    /\ UNCHANGED <<inst, ctorArg, options, jobs, lastJob, registered, callerVars, http, now>>

handleRequest(c, req, lg) ==
    /\ inst = "constructed"
    /\ calls[c].pc = "idle"
    /\ calls' = [calls EXCEPT ![c] = Enter(calls[c], req, lg)]
    /\ UNCHANGED <<inst, ctorArg, options, jobs, lastJob, registered, callerVars, http, now>>

onJobStartSettles(c, outcome, lg) ==
    /\ calls[c].pc = "onJobStart"
    /\ calls' = [calls EXCEPT ![c] =
                    IF outcome # NoError
                    THEN OnJobStartThrew(Threw(calls[c], "onJobStart", outcome), outcome)
                    ELSE RunHandler(calls[c], lg)]
    /\ UNCHANGED <<inst, ctorArg, options, jobs, lastJob, registered, callerVars, http, now>>

handlerSettles(c, outcome, lg, lg2) ==
    /\ calls[c].pc = "handler"
    /\ calls' = [calls EXCEPT ![c] =
                    LET call == [calls[c] EXCEPT !.settledAt = now]
                    IN  IF outcome.threw
                        THEN InnerCatch(Threw(call, "handler", outcome.error),
                                        outcome.error, lg)
                        ELSE HandlerReturned(call, outcome.value, lg, lg2)]
    /\ UNCHANGED <<inst, ctorArg, options, jobs, lastJob, registered, callerVars, http, now>>

onJobCompleteSettles(c, outcome, lg, lg2) ==
    /\ calls[c].pc = "onJobComplete"
    /\ calls' = [calls EXCEPT ![c] =
                    IF outcome # NoError
                    THEN InnerCatch(Threw(calls[c], "onJobComplete", outcome), outcome, lg2)
                    ELSE Completed(calls[c], lg, lg2)]
    /\ UNCHANGED <<inst, ctorArg, options, jobs, lastJob, registered, callerVars, http, now>>

onJobErrorSettles(c, outcome, lg) ==
    /\ calls[c].pc = "onJobError"
    /\ calls' = [calls EXCEPT ![c] =
                    IF outcome # NoError
                    THEN OuterCatch(Threw(calls[c], "onJobError", outcome), outcome)
                    ELSE RethrowCaught(calls[c], lg)]
    /\ UNCHANGED <<inst, ctorArg, options, jobs, lastJob, registered, callerVars, http, now>>

-----------------------------------------------------------------------------
(* validateSecret called directly, as utils/security.test.ts does *)

UpperKey == "X-CRON-SECRET"

OtherSecret == "other-secret"

\* header objects that spell the key in any of three capitalisations
SpellingHeaders ==
    UNION {[K -> {TestSecret, WrongSecret}] : K \in SUBSET {LowerKey, TitleKey, UpperKey}}

NoChecked ==
    [headers |-> EmptyObject, expected |-> "", done |-> FALSE, outcome |-> Return]

callValidateSecret ==
    /\ ~checked.done
    /\ checked' = [checked EXCEPT !.done = TRUE,
                      !.outcome = validateSecret(checked.headers, checked.expected)]
    /\ UNCHANGED <<inst, ctorArg, options, jobs, lastJob, calls, registered,
                   listed, workflow, http, now>>

-----------------------------------------------------------------------------
(* getJobs(), and what its caller can do with the returned Map. A job        *)
(* definition is an object: the registry holds the object job() was given,   *)
(* and a Map copied from the registry holds the same objects. An entry of    *)
(* the returned Map is live while its value is still the registry's object.  *)

NoListed == [returned |-> FALSE, map |-> <<>>]

\* new Map(this.jobs): a new Map over the same definition objects
CopyMap(m) ==
    [i \in 1..Len(m) |-> [name |-> m[i].name, def |-> m[i].def, live |-> TRUE]]

\* a getJobs that hands out the entries in reverse
getJobs_Reversed ==
    /\ inst = "constructed"
    /\ listed' = [returned |-> TRUE,
                  map |-> [i \in 1..Len(jobs) |-> CopyMap(jobs)[Len(jobs) + 1 - i]]]
    /\ UNCHANGED <<inst, ctorArg, options, jobs, lastJob, calls, registered,
                   checked, workflow, http, now>>

getJobs ==
    /\ inst = "constructed"
    /\ listed' = [returned |-> TRUE, map |-> CopyMap(jobs)]
    /\ UNCHANGED <<inst, ctorArg, options, jobs, lastJob, calls, registered,
                   checked, workflow, http, now>>

\* returned.set(name, definition): the caller puts an object of its own in the copy
listedSet(name, definition) ==
    /\ listed.returned
    /\ listed' = [listed EXCEPT !.map =
          IF MapHas(listed.map, name)
          THEN [i \in 1..Len(listed.map) |->
                  IF listed.map[i].name = name
                  THEN [name |-> name, def |-> definition, live |-> FALSE]
                  ELSE listed.map[i]]
          ELSE Append(listed.map, [name |-> name, def |-> definition, live |-> FALSE])]
    /\ UNCHANGED <<inst, ctorArg, options, jobs, lastJob, calls, registered,
                   checked, workflow, http, now>>

\* returned.delete(name)
listedDelete(name) ==
    /\ listed.returned
    /\ MapHas(listed.map, name)
    /\ listed' = [listed EXCEPT !.map =
          SelectSeq(listed.map, LAMBDA e : e.name # name)]
    /\ UNCHANGED <<inst, ctorArg, options, jobs, lastJob, calls, registered,
                   checked, workflow, http, now>>

\* an assignment to a property of a definition object
AssignHandler(definition, h) == [definition EXCEPT !.handler = h]

\* returned.get(name).handler = h: a write to the object the entry holds, seen
\* by every holder of that object
listedAssign(name, h) ==
    /\ listed.returned
    /\ MapHas(listed.map, name)
    /\ LET i == CHOOSE i \in 1..Len(listed.map) : listed.map[i].name = name
           entry == listed.map[i]
       IN  /\ listed' = [listed EXCEPT !.map[i].def = AssignHandler(entry.def, h)]
           /\ IF entry.live
              THEN jobs' = [k \in 1..Len(jobs) |->
                              IF jobs[k].name = name
                              THEN [jobs[k] EXCEPT !.def = AssignHandler(@, h)]
                              ELSE jobs[k]]
              ELSE UNCHANGED jobs
    /\ UNCHANGED <<inst, ctorArg, options, lastJob, calls, registered,
                   checked, workflow, http, now>>

-----------------------------------------------------------------------------
(* generateGitHubWorkflow(config). The document is kept by its parts: the    *)
(* name line, the cron entries of the schedule section in order, and the     *)
(* trigger blocks in order; a line a template prints conditionally is a      *)
(* sequence of zero or one lines.                                            *)

NoDocument == [name |-> "", scheduleBlocks |-> <<>>, jobs |-> <<>>]

NoWorkflow ==
    [called |-> FALSE, config |-> EmptyObject, outcome |-> Return, doc |-> NoDocument]

\* !this.options.baseUrl && !this.options.baseUrlEnvVar, read as baseUrl alone
MissingBaseUrl_OnlyLiteral(o) == Falsy(o.baseUrl)

\* !this.options.baseUrl && !this.options.baseUrlEnvVar
MissingBaseUrl(o) == Falsy(o.baseUrl) /\ Falsy(o.baseUrlEnvVar)

MissingBaseUrlError ==
    ServerlessCronError(
        "Either baseUrl or baseUrlEnvVar is required to generate GitHub workflow",
        "MISSING_BASE_URL", 500)

\* this.options.name || config?.name || "Serverless Cron Jobs"
WorkflowName(o, config) ==
    OrElse(o.name, OrElse(Get(config, "name"), "Serverless Cron Jobs"))

\* config?.runner || "ubuntu-latest"
Runner(config) == OrElse(Get(config, "runner"), "ubuntu-latest")

\* the base URL with the literal preferred to the variable reference
WorkflowBaseUrl_PrefersLiteral(o) ==
    IF ~Falsy(o.baseUrl)
    THEN o.baseUrl
    ELSE "${{ " \o OrElse(o.envVarSource, "vars") \o "." \o o.baseUrlEnvVar \o " }}"

\* let workflowBaseUrl
WorkflowBaseUrl(o) ==
    IF ~Falsy(o.baseUrlEnvVar)
    THEN "${{ " \o OrElse(o.envVarSource, "vars") \o "." \o o.baseUrlEnvVar \o " }}"
    ELSE o.baseUrl

\* a block identifier that is suffixed whatever the number of schedules
JobId_AlwaysSuffixed(jobName, count, i) == jobName \o "-" \o ToString(i)

\* schedules.length > 1 ? `${jobName}-${i + 1}` : jobName, i counted from 1
JobId(jobName, count, i) ==
    IF count > 1 THEN jobName \o "-" \o ToString(i) ELSE jobName

\* Math.ceil(timeout / 60), for a positive timeout
TimeoutMinutes(timeout) == (timeout + 59) \div 60

\* the step's name line
StepName(jobName, count, i) ==
    "Trigger " \o jobName \o
        (IF count > 1 THEN " (Schedule " \o ToString(i) \o ")" ELSE "")

\* a block that also prints the job's description
TriggerBlock_WithDescription(base, cronPath, runner, jobName, jobDef, i) ==
    LET schedules == SchedulesOf(jobDef)
    IN  [ key |-> "trigger-" \o JobId(jobName, Len(schedules), i),
          runsOn |-> runner \o Get(jobDef, "description"),
          timeoutMinutes |->
              IF "timeout" \in DOMAIN jobDef /\ jobDef.timeout # 0
              THEN <<TimeoutMinutes(jobDef.timeout)>> ELSE <<>>,
          schedule |-> schedules[i],
          stepName |-> StepName(jobName, Len(schedules), i),
          url |-> base \o cronPath \o "/" \o jobName,
          continueOnError |->
              IF "retry" \in DOMAIN jobDef /\ jobDef.retry = FALSE
              THEN <<>> ELSE <<"false">> ]

\* the template pushed for schedule i of a job, i counted from 1
TriggerBlock(base, cronPath, runner, jobName, jobDef, i) ==
    LET schedules == SchedulesOf(jobDef)
    IN  [ key |-> "trigger-" \o JobId(jobName, Len(schedules), i),
          runsOn |-> runner,
          timeoutMinutes |->
              IF "timeout" \in DOMAIN jobDef /\ jobDef.timeout # 0
              THEN <<TimeoutMinutes(jobDef.timeout)>> ELSE <<>>,
          schedule |-> schedules[i],
          stepName |-> StepName(jobName, Len(schedules), i),
          url |-> base \o cronPath \o "/" \o jobName,
          continueOnError |->
              IF "retry" \in DOMAIN jobDef /\ jobDef.retry = FALSE
              THEN <<>> ELSE <<"false">> ]

\* the inner for loop: the blocks of one job
JobBlocks(base, cronPath, runner, entry) ==
    [i \in 1..Len(SchedulesOf(entry.def)) |->
        TriggerBlock(base, cronPath, runner, entry.name, entry.def, i)]

\* the outer for loop over this.jobs.entries()
RECURSIVE AllBlocks(_, _, _, _)
AllBlocks(base, cronPath, runner, m) ==
    IF m = <<>> THEN <<>>
    ELSE JobBlocks(base, cronPath, runner, Head(m))
            \o AllBlocks(base, cronPath, runner, Tail(m))

\* Array.from(this.jobs.entries()).flatMap(...): the cron entries
RECURSIVE ScheduleBlocks(_)
ScheduleBlocks(m) ==
    IF m = <<>> THEN <<>>
    ELSE SchedulesOf(Head(m).def) \o ScheduleBlocks(Tail(m))

\* the returned template
Document(m, o, config) ==
    [ name |-> WorkflowName(o, config),
      scheduleBlocks |-> ScheduleBlocks(m),
      jobs |-> AllBlocks(WorkflowBaseUrl(o), o.cronPath, Runner(config), m) ]

generateGitHubWorkflow(config) ==
    /\ inst = "constructed"
    /\ workflow' =
          IF MissingBaseUrl(options)
          THEN [called |-> TRUE, config |-> config,
                outcome |-> Throw(MissingBaseUrlError), doc |-> NoDocument]
          ELSE [called |-> TRUE, config |-> config,
                outcome |-> Return, doc |-> Document(jobs, options, config)]
    /\ UNCHANGED <<inst, ctorArg, options, jobs, lastJob, calls, registered,
                   checked, listed, http, now>>

-----------------------------------------------------------------------------
(* The adapters (adapters/fetch.ts, adapters/nextjs.ts): an HTTP request in, *)
(* a CronRequest to handleRequest, the CronResponse out as the HTTP reply.   *)
(* An invocation runs to its await of handleRequest and, once that call has  *)
(* settled, from there to its return.                                        *)

\* a value that is a string or an array of strings (req.query.job)
StringValue(str) == [array |-> FALSE, str |-> str]
ArrayValue(list) == [array |-> TRUE, list |-> list]

NoHttpRequest ==
    [ adapter |-> "none", method |-> "", pathname |-> <<>>,
      query |-> StringValue(Undefined), headers |-> EmptyObject ]

NoHttp == [pc |-> "idle", request |-> NoHttpRequest, response |-> NoResponse]

\* the header names as the platform hands them over: Headers.forEach and
\* Node's req.headers give every name in lower case
LowerCaseNames(headers) ==
    IF DOMAIN headers = {} THEN EmptyObject
    ELSE [k \in {LowerKey} |-> headers[CHOOSE x \in DOMAIN headers : TRUE]]

\* the characters of the cronPath values in use
ApiCronChars == <<"/", "a", "p", "i", "/", "c", "r", "o", "n">>
JobsSlashChars == <<"/", "j", "o", "b", "s", "/">>

Chars(str) ==
    CASE str = "/api/cron" -> ApiCronChars
      [] str = "/jobs/" -> JobsSlashChars

\* the string a sequence of characters spells
RECURSIVE Concat(_)
Concat(chars) == IF chars = <<>> THEN "" ELSE Head(chars) \o Concat(Tail(chars))

StartsWith(s, prefix) ==
    /\ Len(s) >= Len(prefix)
    /\ SubSeq(s, 1, Len(prefix)) = prefix

\* cronPath.replace(/\/$/, "")
WithoutTrailingSlash(s) ==
    IF s # <<>> /\ s[Len(s)] = "/" THEN SubSeq(s, 1, Len(s) - 1) ELSE s

\* .replace(/^\//, "")
WithoutLeadingSlash(s) ==
    IF s # <<>> /\ Head(s) = "/" THEN Tail(s) ELSE s

\* extractJobNameFromPath(pathname, cronPath); null is the empty sequence,
\* which the caller's !jobName test treats alike
extractJobNameFromPath(pathname, cronPath) ==
    LET normalizedCronPath == WithoutTrailingSlash(cronPath)
    IN  IF ~StartsWith(pathname, normalizedCronPath)
        THEN <<>>
        ELSE WithoutLeadingSlash(
                SubSeq(pathname, Len(normalizedCronPath) + 1, Len(pathname)))

\* const basePath = cronPath || "/api/cron", cronPath being this.options.cronPath
BasePath == OrElse(options.cronPath, "/api/cron")

\* the handler createFetchHandler returns, up to its await of handleRequest
fetchHandler(c, request, lg) ==
    /\ inst = "constructed"
    /\ http[c].pc = "idle"
    /\ calls[c].pc = "idle"
    /\ request.adapter = "fetch"
    /\ LET jobName == extractJobNameFromPath(request.pathname, Chars(BasePath))
       IN  IF jobName = <<>>
           THEN /\ http' = [http EXCEPT ![c] =
                      [ pc |-> "done", request |-> request,
                        response |-> ErrorResponse(400,
                            "Invalid path. Expected format: " \o BasePath \o "/:jobName") ]]
                /\ UNCHANGED calls
           ELSE /\ http' = [http EXCEPT ![c] =
                      [pc |-> "awaiting", request |-> request, response |-> NoResponse]]
                /\ calls' = [calls EXCEPT ![c] =
                      Enter(calls[c],
                            [ jobName |-> Concat(jobName),
                              headers |-> LowerCaseNames(request.headers) ], lg)]
    /\ UNCHANGED <<inst, ctorArg, options, jobs, lastJob, registered, callerVars, now>>

\* the Fetch handler from the settled handleRequest call to its return
fetchReturns(c) ==
    /\ http[c].pc = "awaiting"
    /\ http[c].request.adapter = "fetch"
    /\ calls[c].pc = "done"
    /\ http' = [http EXCEPT ![c].pc = "done", ![c].response =
          IF calls[c].settled = "resolved"
          THEN calls[c].response
          ELSE ErrorResponse(500,
                  IF InstanceOfError(calls[c].rejection)
                  THEN calls[c].rejection.message ELSE "Unknown error")]
    /\ UNCHANGED <<inst, ctorArg, options, jobs, lastJob, calls, registered,
                   callerVars, now>>

\* Array.isArray(req.query.job) ? req.query.job[0] : req.query.job
QueryJob(query) ==
    IF query.array
    THEN IF query.list = <<>> THEN Undefined ELSE query.list[1]
    ELSE query.str

\* the handler createPagesRouterHandler returns, up to its await of handleRequest
pagesRouterHandler(c, request, lg) ==
    /\ inst = "constructed"
    /\ http[c].pc = "idle"
    /\ calls[c].pc = "idle"
    /\ request.adapter = "pages"
    /\ LET jobName == QueryJob(request.query)
       IN  IF Falsy(jobName)
           THEN /\ http' = [http EXCEPT ![c] =
                      [ pc |-> "done", request |-> request,
                        response |-> ErrorResponse(400, "Job name is required") ]]
                /\ UNCHANGED calls
           ELSE /\ http' = [http EXCEPT ![c] =
                      [pc |-> "awaiting", request |-> request, response |-> NoResponse]]
                /\ calls' = [calls EXCEPT ![c] =
                      Enter(calls[c],
                            [ jobName |-> jobName,
                              headers |-> LowerCaseNames(request.headers) ], lg)]
    /\ UNCHANGED <<inst, ctorArg, options, jobs, lastJob, registered, callerVars, now>>

\* the Pages Router handler from the settled handleRequest call to its return;
\* it has no catch, so a rejected call rejects the handler
pagesRouterReturns(c) ==
    /\ http[c].pc = "awaiting"
    /\ http[c].request.adapter = "pages"
    /\ calls[c].pc = "done"
    /\ http' = [http EXCEPT ![c] =
          IF calls[c].settled = "resolved"
          THEN [@ EXCEPT !.pc = "done", !.response = calls[c].response]
          ELSE [@ EXCEPT !.pc = "rejected"]]
    /\ UNCHANGED <<inst, ctorArg, options, jobs, lastJob, calls, registered,
                   callerVars, now>>

-----------------------------------------------------------------------------
(* The clock *)

MaxClock == 3

\* time passes
Tick ==
    /\ now < MaxClock
    /\ now' = now + 1
    /\ UNCHANGED <<inst, ctorArg, options, jobs, lastJob, calls, registered,
                   callerVars, http>>

-----------------------------------------------------------------------------
(* The dispatch specification: one engine instance, its registrations, then *)
(* one handleRequest invocation                                             *)

Init ==
    /\ inst = "new"
    /\ ctorArg = EmptyObject
    /\ options = NoOptions
    /\ jobs = <<>>
    /\ lastJob = NoJobCall
    /\ calls = [c \in CallIds |-> [IdleCall EXCEPT !.slot = c]]
    /\ registered = <<>>
    /\ checked = NoChecked
    /\ listed = NoListed
    /\ workflow = NoWorkflow
    /\ http = [c \in CallIds |-> NoHttp]
    /\ now = 0

Next ==
    \/ \E o \in DispatchCtorArgs : Construct(o)
    \/ \E name \in JobNames, definition \in DispatchDefs, lg \in LogOutcomes :
          job(name, definition, lg)
    \/ \E req \in Requests, lg \in LogOutcomes : handleRequest(1, req, lg)
    \/ \E outcome \in CallbackOutcomes, lg \in LogOutcomes :
          onJobStartSettles(1, outcome, lg)
    \/ \E outcome \in HandlerOutcomes, lg, lg2 \in LogOutcomes :
          handlerSettles(1, outcome, lg, lg2)
    \/ \E outcome \in CallbackOutcomes, lg, lg2 \in LogOutcomes :
          onJobCompleteSettles(1, outcome, lg, lg2)
    \/ \E outcome \in CallbackOutcomes, lg \in LogOutcomes :
          onJobErrorSettles(1, outcome, lg)

Spec == Init /\ [][Next]_vars

-----------------------------------------------------------------------------
(* Vocabulary of the properties *)

Count(seq, what) == Cardinality({i \in 1..Len(seq) : seq[i] = what})

ThrewBy(call, by) == \E i \in 1..Len(call.threw) : call.threw[i].by = by

IsDone(call) == call.pc = "done"

\* the request carries the configured secret: it has a secret header, and
\* every secret header it has holds this.options.secret
CarriesSecret(req) ==
    /\ DOMAIN req.headers # {}
    /\ \A k \in DOMAIN req.headers : req.headers[k] = options.secret

\* a finished call on an engine with a secret, for the configured secret and a registered job
Dispatched(call) ==
    /\ IsDone(call)
    /\ SecretConfigured(options)
    /\ CarriesSecret(call.req)
    /\ MapHas(jobs, call.req.jobName)

\* the response a failure e is converted to by the engine boundary
ConvertedFrom(response, e) ==
    /\ response.status = (IF e.cls = "ServerlessCronError" THEN e.statusCode ELSE 500)
    /\ response.body.success = FALSE
    /\ Get(response.body, "error") =
          (IF e.cls = "NonError" THEN "Unknown error occurred" ELSE e.message)

-----------------------------------------------------------------------------
(* C1: handleRequest never rejects. Whatever the request, the handler, the  *)
(* callbacks and the logger do, a finished call has resolved to a response  *)
(* with a numeric HTTP status and a body carrying a boolean success flag.   *)
C1_NeverRejects ==
    \A c \in CallIds :
        /\ calls[c].settled # "rejected"
        /\ IsDone(calls[c]) =>
              /\ calls[c].settled = "resolved"
              /\ calls[c].response.status \in 100..599
              /\ "success" \in DOMAIN calls[c].response.body
              /\ calls[c].response.body.success \in BOOLEAN

\* a call in which the handler and then onJobError failed, and a response came back
C1_Witness ==
    \E c \in CallIds :
        /\ IsDone(calls[c])
        /\ ThrewBy(calls[c], "handler")
        /\ ThrewBy(calls[c], "onJobError")
        /\ calls[c].settled = "resolved"

(* C2: in every finished call for the configured secret and a registered    *)
(* job, with onJobComplete and onJobError both configured and a handler     *)
(* that was invoked and terminated, exactly one of onJobComplete and        *)
(* onJobError was invoked.                                                  *)
C2_ExactlyOneCompletionCallback ==
    \A c \in CallIds :
        ( /\ Dispatched(calls[c])
          /\ options.onJobComplete # Undefined
          /\ options.onJobError # Undefined
          /\ Count(calls[c].trace, "handler") = 1 )
        => Count(calls[c].trace, "onJobComplete")
              + Count(calls[c].trace, "onJobError") = 1

(* C3 as claimed: every finished call for the configured secret and a       *)
(* registered job has invoked the handler exactly once.                     *)
C3_HandlerExactlyOnce ==
    \A c \in CallIds :
        Dispatched(calls[c]) => Count(calls[c].trace, "handler") = 1

(* C3 as amended: such a call invokes the handler at most once, and exactly *)
(* once unless onJobStart or the logger failed before the handler was       *)
(* reached; then the handler is not invoked at all. No failure of the       *)
(* handler leads to a second invocation, whatever the job's retry flag.     *)
C3_HandlerOnceUnlessStartFails ==
    \A c \in CallIds :
        Dispatched(calls[c]) =>
            LET n == Count(calls[c].trace, "handler")
            IN  /\ n <= 1
                /\ n = 0 <=> ( \/ ThrewBy(calls[c], "onJobStart")
                               \/ ThrewBy(calls[c], "log executing") )

\* a call whose handler threw, for a job registered with retry: true, ran it once
C3_Witness ==
    \E c \in CallIds :
        /\ Dispatched(calls[c])
        /\ ThrewBy(calls[c], "handler")
        /\ "retry" \in DOMAIN calls[c].job
        /\ calls[c].job.retry = TRUE
        /\ Count(calls[c].trace, "handler") = 1

(* C4: whenever the job handler failed, the response has status 500,        *)
(* whatever the handler threw.                                              *)
C4_HandlerFailureIs500 ==
    \A c \in CallIds :
        (IsDone(calls[c]) /\ ThrewBy(calls[c], "handler"))
            => calls[c].response.status = 500

HandlerReturnedIn(call) ==
    Count(call.trace, "handler") = 1 /\ ~ThrewBy(call, "handler")

(* C6 as claimed: a finished call for the configured secret and a           *)
(* registered job whose handler returned has status 200, success true and   *)
(* the handler's return value as body.result.                               *)
C6_SuccessResponse ==
    \A c \in CallIds :
        (Dispatched(calls[c]) /\ HandlerReturnedIn(calls[c]))
        => /\ calls[c].response.status = 200
           /\ calls[c].response.body.success = TRUE
           /\ Get(calls[c].response.body, "result") = calls[c].result

(* C6 as amended: such a call has status 200, success true and the          *)
(* handler's return value as body.result provided neither onJobComplete nor *)
(* the logger failed after the handler returned; when one of them failed    *)
(* the response reports that failure (success false, status 500 or the      *)
(* thrown ServerlessCronError's own status) and carries no result.          *)
C6_SuccessUnlessCompletionFails ==
    \A c \in CallIds :
        (Dispatched(calls[c]) /\ HandlerReturnedIn(calls[c]))
        => IF calls[c].threw = <<>>
           THEN /\ calls[c].response.status = 200
                /\ calls[c].response.body.success = TRUE
                /\ Get(calls[c].response.body, "result") = calls[c].result
           ELSE /\ calls[c].response.body.success = FALSE
                /\ calls[c].response.status # 200
                /\ "result" \notin DOMAIN calls[c].response.body
                /\ calls[c].threw[1].by \in {"onJobComplete", "log completed"}

\* a call with onJobStart and onJobComplete configured that returned the handler's result
C6_Witness ==
    \E c \in CallIds :
        /\ Dispatched(calls[c])
        /\ calls[c].trace =
              <<"validateSecret", "jobs.has", "onJobStart", "handler", "onJobComplete">>
        /\ calls[c].response.status = 200
        /\ Get(calls[c].response.body, "result") = "r2"

(* C7 as claimed: when the onJobStart observer failed, the failure left     *)
(* handleRequest uncaught: the call rejected instead of resolving to a      *)
(* response.                                                                *)
C7_OnJobStartFailureEscapes ==
    \A c \in CallIds :
        (IsDone(calls[c]) /\ ThrewBy(calls[c], "onJobStart"))
            => calls[c].settled = "rejected"

(* C7 as amended: when the onJobStart observer failed, the failure is       *)
(* caught by handleRequest's outer catch like every other one: the call     *)
(* resolves to a response with success false, the failure's message and     *)
(* status 500 (the failure's own statusCode when it is a                    *)
(* ServerlessCronError), and neither the handler nor onJobComplete nor      *)
(* onJobError was invoked.                                                  *)
C7_OnJobStartFailureIsConverted ==
    \A c \in CallIds :
        (IsDone(calls[c]) /\ ThrewBy(calls[c], "onJobStart"))
            => /\ calls[c].settled = "resolved"
               /\ calls[c].threw[1].by = "onJobStart"
               /\ ConvertedFrom(calls[c].response, calls[c].threw[1].error)
               /\ calls[c].trace = <<"validateSecret", "jobs.has", "onJobStart">>

\* a call whose onJobStart threw a plain Error and that answered 500
C7_Witness ==
    \E c \in CallIds :
        /\ IsDone(calls[c])
        /\ ThrewBy(calls[c], "onJobStart")
        /\ calls[c].threw[1].error.cls = "Error"
        /\ calls[c].response.status = 500

(* C8: within one call onJobStart is invoked at most once, and every        *)
(* invocation of the handler, of onJobComplete and of onJobError comes      *)
(* after it.                                                                *)
C8_OnJobStartFirst ==
    \A c \in CallIds :
        LET t == calls[c].trace
        IN  /\ Count(t, "onJobStart") <= 1
            /\ \A i, j \in 1..Len(t) :
                  ( /\ t[i] = "onJobStart"
                    /\ t[j] \in {"handler", "onJobComplete", "onJobError"} )
                  => i < j

\* a call that invoked onJobStart, the handler and then onJobError
C8_Witness ==
    \E c \in CallIds :
        LET t == calls[c].trace
        IN  /\ Count(t, "onJobStart") = 1
            /\ Count(t, "handler") = 1
            /\ Count(t, "onJobError") = 1

\* the constructor was given no secret, or an empty one
NoSecretGiven == Falsy(Get(ctorArg, "secret"))

(* C9: on an engine constructed with no secret (absent or empty), every     *)
(* call is answered at once with status 500 and success false, without      *)
(* running the validator, the lookup, the handler or any callback.          *)
C9_UnconfiguredSecretIs500 ==
    \A c \in CallIds :
        (inst = "constructed" /\ NoSecretGiven /\ calls[c].settled # "none")
            => /\ IsDone(calls[c])
               /\ calls[c].settled = "resolved"
               /\ calls[c].response.status = 500
               /\ calls[c].response.body.success = FALSE
               /\ calls[c].trace = <<>>
               /\ calls[c].threw = <<>>

\* an engine without a secret answered a request for a registered job that
\* carries a non-empty secret header, with all three callbacks configured
C9_Witness ==
    \E c \in CallIds :
        /\ "secret" \notin DOMAIN ctorArg
        /\ IsDone(calls[c])
        /\ MapHas(jobs, calls[c].req.jobName)
        /\ Get(calls[c].req.headers, LowerKey) = TestSecret
        /\ options.onJobStart # Undefined
        /\ options.onJobComplete # Undefined
        /\ options.onJobError # Undefined
        /\ calls[c].response.status = 500

-----------------------------------------------------------------------------
(* validateSecret on its own: one call on a header object that may spell    *)
(* the key in lower case, title case and upper case                          *)

InitSecret ==
    /\ inst = "new"
    /\ ctorArg = EmptyObject
    /\ options = NoOptions
    /\ jobs = <<>>
    /\ lastJob = NoJobCall
    /\ calls = [c \in CallIds |-> [IdleCall EXCEPT !.slot = c]]
    /\ registered = <<>>
    /\ listed = NoListed
    /\ workflow = NoWorkflow
    /\ http = [c \in CallIds |-> NoHttp]
    /\ now = 0
    /\ \E h \in SpellingHeaders, e \in {TestSecret, OtherSecret} :
          checked = [NoChecked EXCEPT !.headers = h, !.expected = e]

NextSecret == callValidateSecret

SpecSecret == InitSecret /\ [][NextSecret]_vars

\* C11: validateSecret finds the header under every capitalisation of its
\* name: a header object holding the expected secret under one spelling of
\* the key is accepted, and MISSING_SECRET (401) is thrown only when the
\* object holds the key under no spelling at all.
C11_AnyCapitalisation ==
    checked.done =>
        /\ (\E k \in {LowerKey, TitleKey, UpperKey} :
                /\ DOMAIN checked.headers = {k}
                /\ checked.headers[k] = checked.expected)
              => ~checked.outcome.threw
        /\ (checked.outcome.threw /\ checked.outcome.error.code = "MISSING_SECRET")
              => DOMAIN checked.headers = {}

-----------------------------------------------------------------------------
(* Registration on its own: the constructor, then job() with schedules of   *)
(* every shape                                                               *)

\* n asterisks separated by single spaces
RECURSIVE Stars(_)
Stars(n) ==
    IF n = 0 THEN <<>>
    ELSE IF n = 1 THEN <<"*">>
    ELSE Stars(n - 1) \o <<" ", "*">>

\* five fields none of which is a cron field
CronNumbers ==
    <<"9", "9", " ", "9", "9", " ", "9", "9", " ", "9", "9", " ", "9", "9">>
CronWords == <<"a", " ", "b", " ", "c">>
\* five fields behind leading, repeated, tab, newline and trailing whitespace
CronSpaced ==
    <<" ", " ", "0", " ", " ", "9", "\t", "*", " ", "*", "\n", "*", " ">>
\* six fields behind a leading space
CronLeading == <<" ">> \o Stars(6)
CronBlank == <<" ", " ">>

CronDefs ==
    { [schedule |-> ScheduleString(str), handler |-> "h1"] :
        str \in {Stars(4), Stars(7), CronNumbers, CronWords,
                 CronSpaced, CronLeading, CronBlank, <<>>} }
    \cup
    { [schedule |-> ScheduleArray(list), handler |-> "h2"] :
        list \in {<<>>, <<Stars(5), Stars(6)>>, <<Stars(5), Stars(4)>>,
                  <<Stars(7), Stars(5)>>} }

CronCtorArgs == {OptionsObject(TestSecret, K) : K \in {{}, {"logger"}}}

NextCron ==
    \/ \E o \in CronCtorArgs : Construct(o)
    \/ \E n \in JobNames, d \in CronDefs, lg \in LogOutcomes : job(n, d, lg)

SpecCron == Init /\ [][NextCron]_vars

\* the names the registry holds
RegisteredNames == {jobs[i].name : i \in 1..Len(jobs)}

\* the step is a job() call that names n (a call repeating the previous call
\* on an unchanged registry is a stuttering step)
JobCalled(n) ==
    /\ inst = "constructed"
    /\ lastJob' # lastJob
    /\ lastJob'.name = n

\* C12: a job() call under a name the registry already holds throws a
\* ServerlessCronError DUPLICATE_JOB with status 500 and leaves the registry
\* as it was: the same names in the same order, each with the definition it
\* was first registered with.
C12_DuplicateLeavesRegistry ==
    [][\A n \in RegisteredNames :
          JobCalled(n) =>
              /\ lastJob'.error =
                    ServerlessCronError("Job \"" \o n \o "\" already exists",
                                        "DUPLICATE_JOB", 500)
              /\ ~lastJob'.stored
              /\ jobs' = jobs]_vars

\* a duplicate call with another definition was refused and the first
\* definition is still the one stored, in a registry of two names
C12_Witness ==
    /\ lastJob.error.code = "DUPLICATE_JOB"
    /\ Len(jobs) = 2
    /\ jobs[1].name = lastJob.name
    /\ jobs[1].def # lastJob.def
    /\ jobs = registered

\* the number of maximal runs of non-whitespace characters of a schedule string
TokenCount(str) ==
    Cardinality({i \in 1..Len(str) :
                    /\ ~IsSpace(str[i])
                    /\ (i = 1 \/ IsSpace(str[i - 1]))})

\* every schedule of the definition has five or six fields
FiveOrSixFields(definition) ==
    \A i \in 1..Len(SchedulesOf(definition)) :
        TokenCount(SchedulesOf(definition)[i]) \in {5, 6}

\* C13: a job() call under a name the registry does not hold stores the
\* definition exactly when every schedule string of the definition (a single
\* string counting as a list of one) has five or six whitespace-separated
\* fields, whatever the fields are; otherwise it throws a ServerlessCronError
\* INVALID_CRON_EXPRESSION with status 500 and stores nothing.
C13_FreshNameStoredIffFiveOrSix ==
    [][\A n \in JobNames \ RegisteredNames :
          JobCalled(n) =>
              IF FiveOrSixFields(lastJob'.def)
              THEN /\ lastJob'.stored
                   /\ lastJob'.error.code # "INVALID_CRON_EXPRESSION"
                   /\ jobs' = Append(jobs, [name |-> n, def |-> lastJob'.def])
              ELSE /\ ~lastJob'.stored
                   /\ lastJob'.error.cls = "ServerlessCronError"
                   /\ lastJob'.error.code = "INVALID_CRON_EXPRESSION"
                   /\ lastJob'.error.statusCode = 500
                   /\ jobs' = jobs]_vars

\* a schedule of six fields behind a leading space was stored, and so was one
\* whose five fields are no cron fields
C13_Witness ==
    /\ Len(jobs) = 2
    /\ jobs[1].def.schedule = ScheduleString(CronLeading)
    /\ jobs[2].def.schedule = ScheduleString(CronNumbers)
    /\ lastJob.stored

-----------------------------------------------------------------------------
(* The registry read back: registrations, failed ones among them, and        *)
(* getJobs()                                                                 *)

RegistryDefs ==
    { [schedule |-> ScheduleString(Cron9), handler |-> "h1"],
      [schedule |-> ScheduleString(Cron9), handler |-> "h2"],
      [schedule |-> ScheduleArray(<<Cron9, Cron18>>), handler |-> "h2",
       description |-> "Daily job", timeout |-> 90, retry |-> FALSE],
      [schedule |-> ScheduleString(CronInvalid), handler |-> "h1"] }

NextRegistry ==
    \/ \E o \in CronCtorArgs : Construct(o)
    \/ \E n \in JobNames, d \in RegistryDefs, lg \in LogOutcomes : job(n, d, lg)
    \/ getJobs

SpecRegistry == Init /\ [][NextRegistry]_vars

\* C15: whenever getJobs() returns, the returned mapping has one entry per
\* registration that stored a definition (failed calls in between add none),
\* in the order of those registrations, each name with the definition it was
\* registered with: the same schedules, handler, description, timeout and retry.
C15_GetJobsRoundTrip ==
    [][listed' # listed =>
          /\ Len(listed'.map) = Len(registered)
          /\ \A i \in 1..Len(registered) :
                /\ listed'.map[i].name = registered[i].name
                /\ listed'.map[i].def = registered[i].def]_vars

\* getJobs returned two entries after a refused call, the second entry with
\* its description, timeout and retry flag
C15_Witness ==
    /\ listed.returned
    /\ Len(listed.map) = 2
    /\ Len(registered) = 2
    /\ lastJob.error.code \in {"DUPLICATE_JOB", "INVALID_CRON_EXPRESSION"}
    /\ listed.map[1].name = "b"
    /\ listed.map[2].name = "a"
    /\ "description" \in DOMAIN listed.map[2].def
    /\ listed.map[2].def.timeout = 90

-----------------------------------------------------------------------------
(* The caller of getJobs() at work on the Map it was given                   *)

AliasDefs ==
    { [schedule |-> ScheduleString(Cron9), handler |-> "h1"],
      [schedule |-> ScheduleArray(<<Cron9, Cron18>>), handler |-> "h2"] }

\* a function of the caller's own
CallerHandler == "h9"

NextAlias ==
    \/ \E o \in CronCtorArgs : Construct(o)
    \/ \E n \in JobNames, d \in AliasDefs : job(n, d, NoError)
    \/ getJobs
    \/ \E n \in JobNames, d \in AliasDefs : listedSet(n, d)
    \/ \E n \in JobNames : listedDelete(n)
    \/ \E n \in JobNames : listedAssign(n, CallerHandler)

SpecAlias == Init /\ [][NextAlias]_vars

\* C14: nothing the caller does through the value getJobs() returned changes
\* the registry, which is what later getJobs, handleRequest and
\* generateGitHubWorkflow calls read: neither adding, deleting or replacing an
\* entry of the returned Map nor writing to a definition reached through it.
C14_ReturnedValueIsDetached ==
    [][(listed.returned /\ listed' # listed) => jobs' = jobs]_vars

-----------------------------------------------------------------------------
(* The workflow generator: the constructor, the registrations, then          *)
(* generateGitHubWorkflow under any config                                   *)

WorkflowNamePool == <<"a", "a-1", "b", "b-1">>
WorkflowNames == {WorkflowNamePool[i] : i \in 1..MaxJobs}

WorkflowDefs ==
    { [schedule |-> ScheduleString(Cron9), handler |-> "h1",
       description |-> "Daily job"],
      [schedule |-> ScheduleArray(<<Cron9>>), handler |-> "h1", timeout |-> 60],
      [schedule |-> ScheduleArray(<<Cron9, Cron18>>), handler |-> "h2",
       timeout |-> 90, retry |-> FALSE],
      [schedule |-> ScheduleArray(<<Cron9, Cron18, Cron9>>), handler |-> "h1",
       retry |-> TRUE],
      [schedule |-> ScheduleArray(<<>>), handler |-> "h1"],
      [schedule |-> ScheduleString(Cron18), handler |-> "h2", timeout |-> 0] }

\* an object that holds key k with value v unless v is undefined
Optional(k, v) == IF v = Undefined THEN EmptyObject ELSE [x \in {k} |-> v]

WorkflowCtorArgs ==
    { [secret |-> TestSecret]
        @@ Optional("name", n) @@ Optional("baseUrl", b) @@ Optional("cronPath", p)
        @@ Optional("baseUrlEnvVar", v) @@ Optional("envVarSource", s) :
      n \in {Undefined, "My Crons"},
      b \in {Undefined, "https://test-app.com"},
      p \in {Undefined, "/jobs"},
      v \in {Undefined, "", "APP_URL"},
      s \in {Undefined, "secrets"} }

WorkflowConfigs ==
    { EmptyObject,
      [name |-> "Custom Cron Jobs", runner |-> "macos-latest"] }

\* the workflow file is generated once the jobs are registered
NextWorkflow ==
    \/ \E o \in WorkflowCtorArgs : Construct(o)
    \/ \E n \in WorkflowNames, d \in WorkflowDefs :
          ~workflow.called /\ ~MapHas(jobs, n) /\ job(n, d, NoError)
    \/ \E config \in WorkflowConfigs : generateGitHubWorkflow(config)

SpecWorkflow == Init /\ [][NextWorkflow]_vars

\* generateGitHubWorkflow returned a document
Generated == workflow.called /\ ~workflow.outcome.threw

\* the identifiers the blocks of one registry entry are expected to carry
ExpectedKeys(entry) ==
    LET k == Len(SchedulesOf(entry.def))
    IN  IF k = 1
        THEN <<"trigger-" \o entry.name>>
        ELSE [i \in 1..k |-> "trigger-" \o entry.name \o "-" \o ToString(i)]

RECURSIVE AllExpectedKeys(_)
AllExpectedKeys(m) ==
    IF m = <<>> THEN <<>> ELSE ExpectedKeys(Head(m)) \o AllExpectedKeys(Tail(m))

\* C16: the generated document holds exactly one trigger block per job and
\* schedule index, in registry and schedule order: a job with k > 1 schedule
\* entries has the blocks <job>-1 .. <job>-k and none named by the bare job
\* name, a job with one schedule entry (a string or a list of one) has the
\* single block named by the bare job name.
C16_OneBlockPerScheduleIndex ==
    Generated =>
        /\ Len(workflow.doc.jobs) = Len(AllExpectedKeys(jobs))
        /\ \A i \in 1..Len(workflow.doc.jobs) :
              workflow.doc.jobs[i].key = AllExpectedKeys(jobs)[i]

\* a document for a job with three schedules followed by a job whose schedule
\* is a list of one
C16_Witness ==
    /\ Generated
    /\ Len(jobs) = 2
    /\ Len(SchedulesOf(jobs[1].def)) = 3
    /\ jobs[2].def.schedule = ScheduleArray(<<Cron9>>)
    /\ Len(workflow.doc.jobs) = 4
    /\ workflow.doc.jobs[3].key = "trigger-" \o jobs[1].name \o "-3"
    /\ workflow.doc.jobs[4].key = "trigger-" \o jobs[2].name

\* the entries of a list without the repetitions, in order of first occurrence
Distinct(list) ==
    SelectSeq([i \in 1..Len(list) |->
                  [first |-> \A j \in 1..(i - 1) : list[j] # list[i], s |-> list[i]]],
              LAMBDA e : e.first)

RECURSIVE DistinctSchedules(_)
DistinctSchedules(m) ==
    IF m = <<>> THEN <<>>
    ELSE [i \in 1..Len(Distinct(SchedulesOf(Head(m).def))) |->
             Distinct(SchedulesOf(Head(m).def))[i].s]
         \o DistinctSchedules(Tail(m))

\* C17: the schedule section of the generated document holds one cron entry
\* per distinct pair of job and schedule string, in registry order: a schedule
\* string a job lists more than once is entered once.
C17_OneCronEntryPerDistinctPair ==
    Generated => workflow.doc.scheduleBlocks = DistinctSchedules(jobs)

\* the job each block of the document was generated for
RECURSIVE BlockOwners(_)
BlockOwners(m) ==
    IF m = <<>> THEN <<>>
    ELSE [i \in 1..Len(SchedulesOf(Head(m).def)) |-> Head(m).name]
         \o BlockOwners(Tail(m))

\* the option was given to the constructor with a non-empty value
Configured(k) == k \in DOMAIN ctorArg /\ ctorArg[k] # ""

ResolvedBaseUrl ==
    IF Configured("baseUrlEnvVar")
    THEN "${{ " \o (IF Configured("envVarSource") THEN ctorArg.envVarSource ELSE "vars")
            \o "." \o ctorArg.baseUrlEnvVar \o " }}"
    ELSE ctorArg.baseUrl

ConfiguredPath == IF Configured("cronPath") THEN ctorArg.cronPath ELSE "/api/cron"

\* C18: every trigger block posts to <resolvedBaseUrl><cronPath>/<jobName>,
\* with the job's name and not the block's suffixed identifier, so the blocks
\* of one job share their URL; the resolved base URL is the reference
\* ${{ <source>.<baseUrlEnvVar> }} (source 'vars' unless envVarSource is given)
\* whenever baseUrlEnvVar is configured, a literal baseUrl notwithstanding,
\* and the literal baseUrl otherwise.
C18_BlockUrl ==
    Generated =>
        \A i \in 1..Len(workflow.doc.jobs) :
            workflow.doc.jobs[i].url =
                ResolvedBaseUrl \o ConfiguredPath \o "/" \o BlockOwners(jobs)[i]

\* both a literal baseUrl and baseUrlEnvVar were configured and the second
\* block of a job with several schedules posts to the job's URL under the
\* variable reference
C18_Witness ==
    /\ Generated
    /\ Configured("baseUrl")
    /\ Configured("baseUrlEnvVar")
    /\ ~Configured("envVarSource")
    /\ Len(jobs) >= 1
    /\ Len(SchedulesOf(jobs[1].def)) > 1
    /\ jobs[1].name = "a"
    /\ workflow.doc.jobs[2].key = "trigger-a-2"
    /\ workflow.doc.jobs[2].url = "${{ vars.APP_URL }}/api/cron/a"

\* C19: generateGitHubWorkflow throws a ServerlessCronError MISSING_BASE_URL
\* with status 500 exactly when neither baseUrl nor baseUrlEnvVar is
\* configured, whatever jobs are registered, and returns a document otherwise.
C19_MissingBaseUrl ==
    workflow.called =>
        IF ~Configured("baseUrl") /\ ~Configured("baseUrlEnvVar")
        THEN /\ workflow.outcome.threw
             /\ workflow.outcome.error.cls = "ServerlessCronError"
             /\ workflow.outcome.error.code = "MISSING_BASE_URL"
             /\ workflow.outcome.error.statusCode = 500
        ELSE /\ ~workflow.outcome.threw
             /\ workflow.doc.name # ""
             /\ Len(workflow.doc.jobs) = Len(BlockOwners(jobs))

\* the call threw with two jobs registered and baseUrlEnvVar given as the
\* empty string
C19_Witness ==
    /\ workflow.called
    /\ workflow.outcome.threw
    /\ Len(jobs) = 2
    /\ "baseUrlEnvVar" \in DOMAIN ctorArg

\* a definition reduced to what the claim lets the document depend on
ContentOf(definition) ==
    [schedule |-> definition.schedule]
        @@ (IF "timeout" \in DOMAIN definition
            THEN [x \in {"timeout"} |-> definition.timeout] ELSE EmptyObject)
        @@ (IF "retry" \in DOMAIN definition
            THEN [x \in {"retry"} |-> definition.retry] ELSE EmptyObject)

RegistryContent(m) ==
    [i \in 1..Len(m) |-> [name |-> m[i].name, def |-> ContentOf(m[i].def)]]

\* C20: the document generateGitHubWorkflow returns is a function of the
\* registry content (the names in their order with their schedules, timeout
\* and retry) and of the configuration (the options and the config argument)
\* alone, so two calls that agree on these return the same document; and the
\* call changes neither the registry nor the options.
C20_PureAndDeterministic ==
    [][workflow' # workflow =>
          /\ jobs' = jobs
          /\ options' = options
          /\ ~workflow'.outcome.threw =>
                workflow'.doc = Document(RegistryContent(jobs), options, workflow'.config)]_vars

\* a document was generated under the custom config for a registry
\* holding a job with a description and a job with timeout and retry
C20_Witness ==
    /\ Generated
    /\ workflow.config # EmptyObject
    /\ workflow.doc.name = "Custom Cron Jobs"
    /\ Len(jobs) = 2
    /\ "description" \in DOMAIN jobs[1].def
    /\ "retry" \in DOMAIN jobs[2].def
    /\ "timeout" \in DOMAIN jobs[2].def

-----------------------------------------------------------------------------
(* Requests that arrive through the Fetch adapter and the Pages Router       *)
(* adapter                                                                   *)

AdapterCtorArgs ==
    { [secret |-> TestSecret] @@ Optional("cronPath", p) : p \in {Undefined, "/jobs/"} }

AdapterDefs == { [schedule |-> ScheduleString(Cron9), handler |-> "h1"] }

HttpMethods == {"POST", "GET", "DELETE"}

\* the header as a client sends it: absent, or under one spelling of its name
HttpHeaders ==
    {EmptyObject} \cup
    { [k \in {key} |-> v] : key \in {LowerKey, TitleKey, UpperKey},
                            v \in {TestSecret, WrongSecret} }

\* url.pathname: under a base path the job's path, the path of another name,
\* the base path alone and with a slash, the base path run on into more
\* characters, a doubled slash and a nested path; and paths elsewhere
FetchPaths ==
    UNION { { base \o <<"/", "a">>, base \o <<"/", "b">>, base, base \o <<"/">>,
              base \o <<"a">>, base \o <<"/", "/", "a">>,
              base \o <<"/", "a", "/", "b">> } :
            base \in {ApiCronChars, WithoutTrailingSlash(JobsSlashChars)} }
    \cup { <<"/">>, <<"/", "x", "/", "a">> }

HttpRequests ==
    { [ adapter |-> "fetch", method |-> m, pathname |-> p,
        query |-> StringValue(Undefined), headers |-> h ] :
      m \in HttpMethods, p \in FetchPaths, h \in HttpHeaders }
    \cup
    { [ adapter |-> "pages", method |-> m, pathname |-> <<>>, query |-> q,
        headers |-> h ] :
      m \in HttpMethods, h \in HttpHeaders,
      q \in { StringValue("a"), StringValue("b"), StringValue(""),
              StringValue(Undefined), ArrayValue(<<"a", "b">>), ArrayValue(<<>>) } }

NextAdapters ==
    \/ \E o \in AdapterCtorArgs : Construct(o)
    \/ \E d \in AdapterDefs : job("a", d, NoError)
    \/ \E request \in HttpRequests : fetchHandler(1, request, NoError)
    \/ \E request \in HttpRequests : pagesRouterHandler(1, request, NoError)
    \/ \E outcome \in HandlerOutcomes : handlerSettles(1, outcome, NoError, NoError)
    \/ fetchReturns(1)
    \/ pagesRouterReturns(1)

SpecAdapters == Init /\ [][NextAdapters]_vars

\* the adapter invocation has replied
Replied(c) == http[c].pc = "done"

\* C21: a request whose method is not POST is answered with status 405 and
\* does not run the job handler, whether it arrives through the Fetch adapter
\* or through the Pages Router adapter.
C21_NonPostIs405 ==
    \A c \in CallIds :
        (Replied(c) /\ http[c].request.method # "POST") =>
            /\ http[c].response.status = 405
            /\ Count(calls[c].trace, "handler") = 0

-----------------------------------------------------------------------------
(* C22: whenever the job handler fails, the response body is success false  *)
(* with, as its error, the message of the handler's failure: the message of *)
(* the error in the context built for onJobError, whatever value the        *)
(* handler threw and whatever onJobError does.                              *)
C22_FailureBodyCarriesHandlerMessage ==
    \A c \in CallIds :
        (IsDone(calls[c]) /\ ThrewBy(calls[c], "handler")) =>
            /\ calls[c].response.body.success = FALSE
            /\ DOMAIN calls[c].response.body = {"success", "error"}
            /\ calls[c].response.body.error = calls[c].errorContext.props.error.message

-----------------------------------------------------------------------------
(* Two handleRequest invocations for one job, interleaved at their awaits    *)

ConcurrentCtorArgs ==
    { OptionsObject(TestSecret, K) :
        K \in {{}, {"onJobStart", "onJobComplete", "onJobError"}} }

ConcurrentDefs == { [schedule |-> ScheduleString(Cron9), handler |-> "h1"] }

ConcurrentRequests ==
    { [jobName |-> "a", headers |-> [k \in {LowerKey} |-> TestSecret]] }

NextConcurrent ==
    \/ \E o \in ConcurrentCtorArgs : Construct(o)
    \/ \E d \in ConcurrentDefs : job("a", d, NoError)
    \/ \E c \in CallIds, req \in ConcurrentRequests : handleRequest(c, req, NoError)
    \/ \E c \in CallIds, outcome \in CallbackOutcomes :
          onJobStartSettles(c, outcome, NoError)
    \/ \E c \in CallIds, outcome \in HandlerOutcomes :
          handlerSettles(c, outcome, NoError, NoError)
    \/ \E c \in CallIds, outcome \in CallbackOutcomes :
          onJobCompleteSettles(c, outcome, NoError, NoError)
    \/ \E c \in CallIds, outcome \in CallbackOutcomes :
          onJobErrorSettles(c, outcome, NoError)

SpecConcurrent == Init /\ [][NextConcurrent]_vars

\* C23 as stated: of two overlapping handleRequest calls for the same job,
\* each invokes the handler exactly once.
C23_EachCallRunsHandlerOnce ==
    \A c \in CallIds :
        Dispatched(calls[c]) => Count(calls[c].trace, "handler") = 1

\* C23, amended: two overlapping handleRequest calls for the same job run
\* independently. Each invokes the handler at most once, and exactly once
\* unless its own onJobStart callback failed; each works on a context object
\* of its own built from its own request, a call answered 200 returns its own
\* handler's result and built its own completion context around it, and a
\* failed handler's error is in the call's own error context; and no call is
\* held back because of the other: a call can be entered, and an invoked
\* handler can settle, whatever state the other call is in.
C23_CallsRunIndependently ==
    \A c \in CallIds :
        LET call == calls[c]
        IN  /\ Count(call.trace, "handler") <= 1
            /\ Dispatched(call) =>
                  (Count(call.trace, "handler") = 1 <=> ~ThrewBy(call, "onJobStart"))
            /\ Count(call.trace, "handler") = 1 =>
                  /\ call.context.obj = <<c, "context">>
                  /\ call.context.props.jobName = call.req.jobName
                  /\ call.context.props.headers = call.req.headers
            /\ (IsDone(call) /\ call.response.status = 200) =>
                  /\ call.response.body.result = call.result
                  /\ call.completeContext.obj = <<c, "completeContext">>
                  /\ call.completeContext.props.result = call.result
            /\ ThrewBy(call, "handler") =>
                  /\ call.errorContext.obj = <<c, "errorContext">>
                  /\ \E i \in 1..Len(call.threw) :
                        /\ call.threw[i].by = "handler"
                        /\ call.errorContext.props.error = AsError(call.threw[i].error)
            /\ (inst = "constructed" /\ call.pc = "idle") =>
                  \A req \in ConcurrentRequests : ENABLED handleRequest(c, req, NoError)
            /\ call.pc = "handler" =>
                  \A outcome \in HandlerOutcomes :
                      ENABLED handlerSettles(c, outcome, NoError, NoError)

\* both calls are in flight: the first has its handler running while the
\* second, whose handler returned r2, awaits onJobComplete
C23_Witness ==
    /\ calls[1].pc = "handler"
    /\ calls[2].pc = "onJobComplete"
    /\ calls[2].result = "r2"
    /\ calls[1].req.jobName = calls[2].req.jobName

-----------------------------------------------------------------------------
(* C24: a name given in the config argument of generateGitHubWorkflow is    *)
(* the name of the generated document and the config's runner is the        *)
(* runs-on of every block, whatever the engine's options are; when no name  *)
(* is given anywhere the document is named 'Serverless Cron Jobs'.          *)
C24_ConfigNameIsDocumentName ==
    Generated =>
        /\ "name" \in DOMAIN workflow.config =>
              workflow.doc.name = workflow.config.name
        /\ "runner" \in DOMAIN workflow.config =>
              \A i \in 1..Len(workflow.doc.jobs) :
                  workflow.doc.jobs[i].runsOn = workflow.config.runner
        /\ ("name" \notin DOMAIN workflow.config /\ ~Configured("name")) =>
              workflow.doc.name = "Serverless Cron Jobs"

-----------------------------------------------------------------------------
(* One handleRequest invocation while the clock runs                         *)

ClockCtorArgs ==
    { OptionsObject(TestSecret, K) :
        K \in {{}, {"onJobComplete", "onJobError"},
               {"onJobStart", "onJobComplete", "onJobError"}} }

NextClock ==
    \/ Tick
    \/ \E o \in ClockCtorArgs : Construct(o)
    \/ \E d \in ConcurrentDefs : job("a", d, NoError)
    \/ \E req \in ConcurrentRequests : handleRequest(1, req, NoError)
    \/ \E outcome \in CallbackOutcomes : onJobStartSettles(1, outcome, NoError)
    \/ \E outcome \in HandlerOutcomes : handlerSettles(1, outcome, NoError, NoError)
    \/ \E outcome \in CallbackOutcomes : onJobCompleteSettles(1, outcome, NoError, NoError)
    \/ \E outcome \in CallbackOutcomes : onJobErrorSettles(1, outcome, NoError)

SpecClock == Init /\ [][NextClock]_vars

BaseKeys == {"jobName", "startedAt", "headers", "metadata"}

\* the context has its four base properties as the base context has them
KeepsBase(context, base) ==
    \A k \in BaseKeys : k \in DOMAIN context.props /\ context.props[k] = base.props[k]

\* C25: completeJobContext and errorJobContext return a new object and leave
\* the base context they were given as it was; the context onJobComplete
\* received has duration and result and no error, the context onJobError
\* received has duration and error and no result, and both have the base
\* context's jobName, startedAt, headers and metadata.
C25_CopyOnComplete ==
    [][\A c \in CallIds :
          LET before == calls[c]
              after == calls'[c]
          IN  /\ before.context # NoContext => after.context = before.context
              /\ Count(after.trace, "onJobComplete") > 0 =>
                    /\ after.completeContext.obj # after.context.obj
                    /\ DOMAIN after.completeContext.props =
                          BaseKeys \cup {"result", "duration"}
                    /\ after.completeContext.props.result = after.result
                    /\ KeepsBase(after.completeContext, after.context)
                    /\ DOMAIN after.context.props = BaseKeys
              /\ Count(after.trace, "onJobError") > 0 =>
                    /\ after.errorContext.obj # after.context.obj
                    /\ DOMAIN after.errorContext.props =
                          BaseKeys \cup {"error", "duration"}
                    /\ after.errorContext.props.error = AsError(after.caught)
                    /\ KeepsBase(after.errorContext, after.context)
                    /\ DOMAIN after.context.props = BaseKeys]_vars

\* onJobComplete received a completion context and failed, and onJobError
\* then received an error context built from the same base context
C25_Witness ==
    /\ calls[1].trace =
          <<"validateSecret", "jobs.has", "handler", "onJobComplete", "onJobError">>
    /\ calls[1].completeContext.props.result = "r1"
    /\ calls[1].completeContext.props.duration = 2
    /\ "result" \notin DOMAIN calls[1].errorContext.props
    /\ calls[1].context.props.startedAt = 1

\* C26: the duration in the context built for onJobComplete or onJobError is
\* the clock at the moment that context is built less the start time, which
\* was taken before onJobStart and the handler ran; so it is not negative and
\* not less than the time from the handler's invocation to its return or
\* failure.
C26_DurationCoversHandler ==
    [][\A c \in CallIds :
          LET before == calls[c]
              after == calls'[c]
          IN  /\ (before.completeContext = NoContext /\ after.completeContext # NoContext) =>
                    after.completeContext.props.duration = now - after.startTime
              /\ (before.errorContext = NoContext /\ after.errorContext # NoContext) =>
                    after.errorContext.props.duration = now - after.startTime
              /\ Count(after.trace, "handler") > 0 => after.startTime <= after.invokedAt
              /\ after.completeContext # NoContext =>
                    /\ after.completeContext.props.duration >= 0
                    /\ after.completeContext.props.duration >=
                          after.settledAt - after.invokedAt
              /\ after.errorContext # NoContext =>
                    /\ after.errorContext.props.duration >= 0
                    /\ after.errorContext.props.duration >=
                          after.settledAt - after.invokedAt]_vars

\* the handler was invoked one tick after the start and failed one tick
\* later; onJobError received a duration of two ticks
C26_Witness ==
    /\ Count(calls[1].trace, "onJobStart") = 1
    /\ Count(calls[1].trace, "onJobError") = 1
    /\ ThrewBy(calls[1], "handler")
    /\ calls[1].invokedAt = calls[1].startTime + 1
    /\ calls[1].settledAt = calls[1].invokedAt + 1
    /\ calls[1].errorContext.props.duration = 2

-----------------------------------------------------------------------------
\* the call was refused before a job was started: the engine has no secret,
\* the validator refused the request's headers, or the registry does not
\* hold the job named
RefusedEarly(call) ==
    \/ Falsy(options.secret)
    \/ validateSecret(call.req.headers, options.secret).threw
    \/ call.req.jobName \notin RegisteredNames

\* C27: a handleRequest call that is refused by the secret check or the job
\* lookup (status 401, 403 or 404, or 500 when no secret is configured) has
\* invoked neither a job handler nor onJobStart, onJobComplete or onJobError,
\* and the registry is as the registrations left it.
C27_NoSideEffectBeforeAuth ==
    \A c \in CallIds :
        (IsDone(calls[c]) /\ RefusedEarly(calls[c])) =>
            /\ calls[c].response.status \in {401, 403, 404, 500}
            /\ \A i \in 1..Len(calls[c].trace) :
                  calls[c].trace[i] \in {"validateSecret", "jobs.has"}
            /\ calls[c].threw = <<>>
            /\ calls[c].context = NoContext
            /\ jobs = registered

\* with all callbacks configured and a job registered, a request with a wrong
\* secret was answered 403 after the validator alone had run
C27_Witness ==
    /\ IsDone(calls[1])
    /\ calls[1].response.status = 403
    /\ calls[1].trace = <<"validateSecret">>
    /\ options.onJobStart # Undefined
    /\ options.onJobError # Undefined
    /\ calls[1].req.jobName \in RegisteredNames

-----------------------------------------------------------------------------
(* Two requests, one after or beside the other, that a caller without the    *)
(* secret may use to probe the registry                                      *)

ProbeCtorArgs == { OptionsObject(TestSecret, {}) }

NextProbe ==
    \/ \E o \in ProbeCtorArgs : Construct(o)
    \/ \E d \in ConcurrentDefs : job("a", d, NoError)
    \/ \E c \in CallIds, req \in Requests : handleRequest(c, req, NoError)
    \/ \E c \in CallIds, outcome \in HandlerOutcomes :
          handlerSettles(c, outcome, NoError, NoError)

SpecProbe == Init /\ [][NextProbe]_vars

\* no header of the request holds the configured secret
LacksSecret(req) == \A k \in DOMAIN req.headers : req.headers[k] # options.secret

\* C28: the secret is checked before the job is looked up: of two requests
\* with the same headers, none of which holds the correct secret, one naming
\* a registered job and the other an unregistered one, both are answered
\* with the same status, 401 or 403, and the same body.
C28_NoRegistryProbe ==
    \A c, d \in CallIds :
        ( /\ IsDone(calls[c]) /\ IsDone(calls[d])
          /\ calls[c].req.headers = calls[d].req.headers
          /\ LacksSecret(calls[c].req)
          /\ calls[c].req.jobName \in RegisteredNames
          /\ calls[d].req.jobName \notin RegisteredNames )
        => /\ calls[c].response.status \in {401, 403}
           /\ calls[c].response = calls[d].response
           /\ calls[c].trace = calls[d].trace

\* a wrong secret was sent for the registered job 'a' and for the
\* unregistered job 'b': both calls were answered 403
C28_Witness ==
    /\ IsDone(calls[1]) /\ IsDone(calls[2])
    /\ RegisteredNames = {"a"}
    /\ calls[1].req.jobName = "a"
    /\ calls[2].req.jobName = "b"
    /\ calls[1].req.headers = [k \in {LowerKey} |-> WrongSecret]
    /\ calls[2].req.headers = calls[1].req.headers
    /\ calls[1].response.status = 403
    /\ calls[2].response.status = 403

-----------------------------------------------------------------------------
\* C29: for every registry reachable through successful registrations, the
\* trigger-block identifiers of the generated document are pairwise distinct:
\* no two blocks of the document share an identifier.
C29_BlockIdentifiersDistinct ==
    Generated =>
        \A i, j \in 1..Len(workflow.doc.jobs) :
            workflow.doc.jobs[i].key = workflow.doc.jobs[j].key => i = j

-----------------------------------------------------------------------------
\* the path is <cronPath>/<jobName>: the base path without its trailing
\* slash, a slash, and a non-empty job name
ExactBase == WithoutTrailingSlash(Chars(OrElse(options.cronPath, "/api/cron")))

IsExactPath(pathname) ==
    /\ Len(pathname) > Len(ExactBase) + 1
    /\ SubSeq(pathname, 1, Len(ExactBase) + 1) = ExactBase \o <<"/">>

NameInPath(pathname) == Concat(SubSeq(pathname, Len(ExactBase) + 2, Len(pathname)))

\* C30: the Fetch adapter dispatches a request to the engine only when the
\* URL path is exactly <cronPath>/<jobName>, the job name being everything
\* after that slash; any other path, one that merely begins with the
\* characters of cronPath included, is answered with status 400 and success
\* false without a call of handleRequest.
C30_FetchDispatchesExactPathOnly ==
    \A c \in CallIds :
        (http[c].pc # "idle" /\ http[c].request.adapter = "fetch") =>
            IF IsExactPath(http[c].request.pathname)
            THEN calls[c].pc # "idle"
                 => calls[c].req.jobName = NameInPath(http[c].request.pathname)
            ELSE /\ http[c].pc = "done"
                 /\ http[c].response.status = 400
                 /\ http[c].response.body.success = FALSE
                 /\ calls[c].pc = "idle"

====
